---- MODULE Spec2Model ----
(***************************************************************************)
(* Model of the zen5-optimizer LD_PRELOAD interposer:                      *)
(*   src/src/memory/hugepage_wrapper.cpp  (mmap / munmap interception,     *)
(*                                         allocation tracker, copy-in)    *)
(*   src/src/zen5_optimizer.cpp           (library constructor, destructor)*)
(*   cpu_validator.cpp                    (is_zen5_cpu, the CPU gate)      *)
(*   src/src/config.h                     (threshold, feature flag)        *)
(*                                                                         *)
(* One interposed call runs at a time (single calling thread).  Every call *)
(* the interposer makes to an underlying primitive (real mmap, real        *)
(* munmap, fstat, pread, mprotect, malloc, dlsym) is one step; the result  *)
(* of the primitive is chosen by the environment.  While a call is in      *)
(* progress no other call can start, so the steps of a handler always run  *)
(* to its return, to exit(1) or to a crash.                                *)
(***************************************************************************)
EXTENDS Integers, Sequences, FiniteSets, TLC

(***************************************************************************)
(* Program constants                                                       *)
(***************************************************************************)
ENABLE_HUGEPAGES == 1

MIN_SIZE_FOR_HUGEPAGES == 1073741824

chunk_size == 268435456

MAP_FAILED == -1

nullptr == 0

\* the display family is_zen5_cpu accepts (0x1A)
ZEN5_FAMILY == 26

\* the family validate_zen5_or_exit names in its message: "Family 25h" (0x25)
DIAGNOSTIC_FAMILY == 37

(***************************************************************************)
(* Bounds of the model                                                     *)
(***************************************************************************)
\* number of disjoint address ranges the kernel can hand out
NumRegions == 2

\* number of short (partial) pread results the environment may produce
\* during one copy-in
MaxShortReads == 2

\* size of a short pread result, in bytes
ShortRead == 100000000

\* number of threads that call the interposer concurrently
NumThreads == 2

\* number of interposed calls other objects' initialisers may make before the
\* library's own constructor runs
MaxEarlyCalls == 1

\* number of entries the tracker holds at most when track_allocation and
\* untrack_allocation are exercised on their own
MaxEntries == 3

(***************************************************************************)
(* Environment: files, descriptors, call arguments                         *)
(***************************************************************************)
\* fd 3: a file of exactly the threshold; fd 4: one byte less;
\* fd 5: 1.5 x threshold
FileSize(f) ==
    CASE f = 3 -> MIN_SIZE_FOR_HUGEPAGES
      [] f = 4 -> MIN_SIZE_FOR_HUGEPAGES - 1
      [] f = 5 -> MIN_SIZE_FOR_HUGEPAGES + (MIN_SIZE_FOR_HUGEPAGES \div 2)
      [] OTHER -> 0

Fds == {-1, 3, 4, 5}

Lengths == {FileSize(f) : f \in {3, 4, 5}}

Offsets == {0, 4096}

Prots == {{"PROT_READ"}, {"PROT_READ", "PROT_WRITE"},
          {"PROT_READ", "PROT_WRITE", "PROT_EXEC"}}

FlagSets == {{"MAP_PRIVATE"}, {"MAP_SHARED"}, {"MAP_PRIVATE", "MAP_FIXED"}}

\* base addresses of the address ranges; nullptr and MAP_FAILED are not among them
Addrs == 1..NumRegions

\* the addresses in the middle of a range that callers pass to munmap
\* (test_munmap.cpp, Test 6, middle_addr): NumRegions + a is the address
\* InsideOffset bytes above the base of range a, which is strictly inside the
\* regions that are longer than that
InsideAddrs == {NumRegions + a : a \in Addrs}

InsideOffset == MIN_SIZE_FOR_HUGEPAGES

\* the range an address lies in
RangeOf(p) == IF p \in InsideAddrs THEN p - NumRegions ELSE p

\* the processor's signature: what CPUID leaf 1 encodes in eax
Signatures ==
    [stepping : {0, 2}, model : {4}, family : {6, 11, 15},
     extended_model : {2, 4}, extended_family : {10, 11, 15, 22}]

\* eax of CPUID leaf 1: stepping in bits 0-3, model in 4-7, family in 8-11,
\* extended model in 16-19, extended family in 20-27
Eax(sig) ==
    sig.stepping + 16 * sig.model + 256 * sig.family
        + 65536 * sig.extended_model + 1048576 * sig.extended_family

\* ebx, edx, ecx of CPUID leaf 0, four characters each
VendorRegisters ==
    {[ebx |-> "Auth", edx |-> "enti", ecx |-> "cAMD"],
     [ebx |-> "Genu", edx |-> "ineI", ecx |-> "ntel"],
     [ebx |-> "Auth", edx |-> "cAMD", ecx |-> "enti"]}

\* the machines the library may be loaded on: leaf0, leaf1 tell whether
\* __get_cpuid supports the leaf
Cpus ==
    {[leaf0 |-> l0, vendor |-> v, leaf1 |-> l1, eax |-> Eax(sig), sig |-> sig] :
        l0 \in BOOLEAN, v \in VendorRegisters, l1 \in BOOLEAN, sig \in Signatures}

NoCpu ==
    [leaf0 |-> FALSE, vendor |-> [ebx |-> "", edx |-> "", ecx |-> ""],
     leaf1 |-> FALSE, eax |-> 0,
     sig |-> [stepping |-> 0, model |-> 0, family |-> 0, extended_model |-> 0,
              extended_family |-> 0]]

\* lengths a caller passes to munmap: zero, less than every promoted length,
\* and at least every promoted length
MunmapLengths == {0, FileSize(4), FileSize(5)}

(***************************************************************************)
(* State                                                                   *)
(***************************************************************************)
VARIABLES
    real_mmap,      \* "null" or "resolved": the cached pointer to the real mmap
    real_munmap,    \* "null" or "resolved": the cached pointer to the real munmap
    allocations,    \* the tracker: sequence of [addr, size], head of the list first
    pc,             \* position of the calling thread
    fn,             \* the interposed function in progress: "mmap", "munmap", "none"
    addr, length, prot, flags, fd, offset,   \* arguments of the call in progress
    fstat_ok,       \* environment: whether fstat on fd succeeds during this call
    allocations0,   \* the tracker as it was when the call in progress was entered
    huge_mem,       \* local of mmap: the substitute region
    total_read,     \* local of mmap: cumulative bytes read
    shorts,         \* number of short pread results in this copy-in
    copied,         \* bytes copied into the substitute region, as maximal runs
                    \*   [dst, src, len]: region bytes dst..dst+len-1 hold file
                    \*   bytes src..src+len-1
    last_read,      \* the latest pread: [n, count, dst, src, ret]
    calls,          \* calls to underlying primitives made by the call in progress
    retval,         \* value returned by the interposed call
    errno,          \* the thread's errno
    vm,             \* kernel view: vm[a] = <<lo, hi>>, the bytes of range a still
                    \*   mapped (relative to its base); <<0, 0>> when none
    released,       \* history, about the latest region the kernel placed at a:
                    \*   released[a] = [node, region], how often the node of its
                    \*   tracker entry was freed and how often the region was
                    \*   unmapped with the tracked size (by munmap at line 219 or
                    \*   by the destructor); starts afresh when a is handed out
    dlsym_calls,    \* history: dlsym_calls[s], number of dlsym calls for symbol s
    exit_status,    \* -1 while the process runs; the argument of exit() after it
    heap,           \* concurrent runs: heap[n], the HugePageAllocation in malloc
                    \*   slot n: [addr, size, next, live]; next is a slot or
                    \*   nullptr, live is FALSE before malloc and after free
    head,           \* concurrent runs: the global allocations pointer
    thr,            \* concurrent runs: thr[t], thread t's position and locals:
                    \*   [pc, alloc, prev, curr, size, site, unmapped, ret];
                    \*   prev = nullptr stands for &allocations, prev = n for
                    \*   &heap[n].next
    enable_hugepages,   \* the build: the value ENABLE_HUGEPAGES was compiled with
    gate,           \* "pending" until validate_zen5_or_exit has run, then
                    \*   "passed" or "failed"
    cpu,            \* the CPUID answers of the machine, while the constructor
                    \*   runs and after it has ended the process
    early,          \* number of interposed calls made before the constructor
    outstanding     \* history: the addresses that promoted mmap calls have
                    \*   returned and that no munmap call has been given since

args == <<addr, length, prot, flags, fd, offset>>

locals == <<huge_mem, total_read, shorts, copied, last_read>>

binder == <<real_mmap, real_munmap, dlsym_calls, exit_status>>

\* the build, the machine and the library's load state
host == <<enable_hugepages, gate, cpu, early>>

\* the state of the one-thread runs
single == <<binder, allocations, released, allocations0, pc, fn, args,
            fstat_ok, locals, calls, retval, errno, vm, host, outstanding>>

\* the state of the concurrent runs
mt == <<heap, head, thr>>

vars == <<single, mt>>

Threads == 1..NumThreads

\* malloc slots: a thread owns at most one node at a time
Nodes == 1..NumThreads

NoNode == [addr |-> nullptr, size |-> 0, next |-> nullptr, live |-> FALSE]

NotStarted ==
    [pc |-> "start", alloc |-> nullptr, prev |-> nullptr, curr |-> nullptr,
     size |-> 0, site |-> 0, unmapped |-> 0, ret |-> 0]

NoRead == [n |-> 0, count |-> 0, dst |-> 0, src |-> 0, ret |-> 0]

Unmapped == <<0, 0>>

NotReleased == [node |-> 0, region |-> 0]

FreeAddrs == {a \in Addrs : vm[a] = Unmapped}

\* one entry of the log of calls to underlying primitives
\* (site is the source line of the call in hugepage_wrapper.cpp)
Event(site, f, a, len, p, fl, d, off, r) ==
    [site |-> site, fn |-> f, addr |-> a, length |-> len, prot |-> p,
     flags |-> fl, fd |-> d, offset |-> off, ret |-> r]

\* everything but the build and the load state
InitProcess ==
    /\ real_mmap = "null"
    /\ real_munmap = "null"
    /\ allocations = <<>>
    /\ allocations0 = <<>>
    /\ fstat_ok = FALSE
    /\ pc = "idle"
    /\ fn = "none"
    /\ addr = nullptr /\ length = 0 /\ prot = {} /\ flags = {} /\ fd = -1 /\ offset = 0
    /\ huge_mem = nullptr
    /\ total_read = 0
    /\ shorts = 0
    /\ copied = <<>>
    /\ last_read = NoRead
    /\ calls = <<>>
    /\ retval = 0
    /\ errno = "0"
    /\ vm = [a \in Addrs |-> Unmapped]
    /\ released = [a \in Addrs \cup InsideAddrs |-> NotReleased]
    /\ dlsym_calls = [s \in {"mmap", "munmap"} |-> 0]
    /\ exit_status = -1
    /\ heap = [n \in Nodes |-> NoNode]
    /\ head = nullptr
    /\ thr = [t \in Threads |-> NotStarted]
    /\ cpu = NoCpu
    /\ early = 0
    /\ outstanding = {}

\* the library has just been mapped into the process: its constructor has not
\* run yet; the build has the promotion feature as shipped or switched off
Init ==
    /\ InitProcess
    /\ enable_hugepages \in {0, ENABLE_HUGEPAGES}
    /\ gate = "pending"

(***************************************************************************)
(* Pure helpers of hugepage_wrapper.cpp                                    *)
(***************************************************************************)
\* mutant: the threshold test made strict
should_use_hugepages_strict(d, len) ==
    IF enable_hugepages = 1 THEN len > MIN_SIZE_FOR_HUGEPAGES ELSE FALSE

\* mutant: the feature flag is not consulted
should_use_hugepages_unconditional(d, len) == len >= MIN_SIZE_FOR_HUGEPAGES

\* lines 61-67, under the value the flag was compiled with
should_use_hugepages(d, len) ==
    IF enable_hugepages = 1 THEN len >= MIN_SIZE_FOR_HUGEPAGES ELSE FALSE

\* the condition of line 123, evaluated on the result of a successful fstat
WholeFile(off, len, st_size) == off = 0 /\ len = st_size

\* mutant: the node records the size of one read, not of the region
track_allocation_chunk(list, a, size) ==
    <<[addr |-> a, size |-> chunk_size]>> \o list

\* mutant: the new node is not linked to the rest of the list
track_allocation_unlinked(list, a, size) == <<[addr |-> a, size |-> size]>>

\* mutant: the node is linked before its size is written
track_allocation_nosize(list, a, size) == <<[addr |-> a, size |-> 0]>> \o list

track_allocation(list, a, size) == <<[addr |-> a, size |-> size]>> \o list

\* mutant: an entry matches every address of the range its region is in
FindEntry_enclosing(list, a) ==
    IF \E i \in 1..Len(list) : list[i].addr = RangeOf(a)
    THEN CHOOSE i \in 1..Len(list) :
            /\ list[i].addr = RangeOf(a)
            /\ \A j \in 1..(i - 1) : list[j].addr # RangeOf(a)
    ELSE 0

\* position of the first entry of list with base address a; 0 when there is none
FindEntry(list, a) ==
    IF \E i \in 1..Len(list) : list[i].addr = a
    THEN CHOOSE i \in 1..Len(list) :
            /\ list[i].addr = a
            /\ \A j \in 1..(i - 1) : list[j].addr # a
    ELSE 0

\* mutant: the size of the head is returned, whichever entry matched
untrack_size_head(list, a) ==
    IF FindEntry(list, a) = 0 THEN 0 ELSE list[1].size

\* untrack_allocation: the value it returns ...
untrack_size(list, a) ==
    IF FindEntry(list, a) = 0 THEN 0 ELSE list[FindEntry(list, a)].size

\* mutant: the entry is found but stays in the list
untrack_list_keep(list, a) == list

\* mutant: the head of the list is unlinked, whichever entry matched
untrack_list_head(list, a) ==
    IF FindEntry(list, a) = 0 THEN list ELSE Tail(list)

\* mutant: a match empties the list
untrack_list_all(list, a) ==
    IF FindEntry(list, a) = 0 THEN list ELSE <<>>

\* ... and the list it leaves
untrack_list(list, a) ==
    IF FindEntry(list, a) = 0 THEN list
    ELSE SubSeq(list, 1, FindEntry(list, a) - 1)
            \o SubSeq(list, FindEntry(list, a) + 1, Len(list))

\* mutant: munmap trusts the caller's length
UnmapLength_caller(tracked_size, len) == len

\* the length munmap passes to the real munmap
UnmapLength(tracked_size, len) == IF tracked_size > 0 THEN tracked_size ELSE len

\* mutant: munmap reports success whatever the real munmap returned
MunmapReturn_zero(r) == 0

\* the value munmap returns, given the value r the real munmap returned
MunmapReturn(r) == r

\* mutant: one read asks for all that is left
ToRead_rest(len, tr) == len - tr

\* copy-in: size, destination offset and source offset of the next pread
ToRead(len, tr) == IF len - tr < chunk_size THEN len - tr ELSE chunk_size

ReadDst(tr) == tr

\* mutant: the source offset does not advance with the bytes read
ReadSrc_fixed(off, tr) == off

ReadSrc(off, tr) == off + tr

\* mutant: only the bytes read so far are released
ReleaseLength_read(len, tr) == tr

\* the length passed to the real munmap when copy-in fails
ReleaseLength(len, tr) == len

\* arguments of the two substitute allocations
HugeFlags == {"MAP_PRIVATE", "MAP_ANONYMOUS", "MAP_HUGETLB"}

\* mutant: the fallback allocation asks for huge pages again
AnonFlags_huge == {"MAP_PRIVATE", "MAP_ANONYMOUS", "MAP_HUGETLB"}

AnonFlags == {"MAP_PRIVATE", "MAP_ANONYMOUS"}

\* mutant: the substitute memory is asked for with the caller's protection
AllocProt_callers == prot

\* lines 128 and 136: the protection both substitute allocations ask for
AllocProt == {"PROT_READ", "PROT_WRITE"}

\* where mmap continues after the two failure branches that do not promote
\* mutant: a failed fstat is ignored and the request is promoted
StatFailedNext_promote == "mmap_huge"

StatFailedNext == "forward119"

\* mutant: when both allocations fail the original request is forwarded
AnonFailedNext_forward == "forward204"

AnonFailedNext == "ret"

\* mutant: the forwarded call drops the caller's offset
ForwardEvent_offset0(site, r) ==
    Event(site, "real_mmap", addr, length, prot, flags, fd, 0, r)

\* the forwarded call: the caller's six arguments
ForwardEvent(site, r) == Event(site, "real_mmap", addr, length, prot, flags, fd, offset, r)

(***************************************************************************)
(* Environment: the kernel                                                 *)
(***************************************************************************)
\* the kernel maps and releases whole pages: a length is rounded up to the
\* next multiple of the page size
PageUp(len) == ((len + 4095) \div 4096) * 4096

\* a munmap of len bytes at an address in the middle of a range releases the
\* range from there to its end (callers pass such lengths only, so that what
\* stays mapped of a range is one interval)
ReachesEnd(len) == PageUp(len) >= FileSize(5) - InsideOffset

\* munmap(a, len) on the kernel's view: the pages of bytes [0, len) of range a
\* are released, for an address in the middle of a range the pages from
\* InsideOffset on
KernelMunmap(v, a, len) ==
    IF a \in Addrs /\ len > 0
    THEN [v EXCEPT ![a] = IF PageUp(len) >= v[a][2] THEN Unmapped
                          ELSE IF PageUp(len) <= v[a][1] THEN v[a]
                          ELSE <<PageUp(len), v[a][2]>>]
    ELSE IF a \in InsideAddrs /\ len > 0
    THEN [v EXCEPT ![RangeOf(a)] = IF InsideOffset >= @[2] THEN @
                                   ELSE IF InsideOffset <= @[1] THEN Unmapped
                                   ELSE <<@[1], InsideOffset>>]
    ELSE v

KernelMunmapRet(a, len) == IF len > 0 THEN 0 ELSE -1

\* what the real munmap may return to the interposed munmap: EINVAL for a
\* length of zero; for a positive length success, or failure when the kernel
\* cannot release the range (EINVAL for a range it cannot split, ENOMEM)
KernelMunmapRets(a, len) == {KernelMunmapRet(a, len), -1}

KernelMap(v, a, len) == [v EXCEPT ![a] = <<0, PageUp(len)>>]

\* results a pread of count bytes can give: error, end of file, all, or short
PreadResults(count) ==
    {-1, 0, count} \cup (IF shorts < MaxShortReads /\ ShortRead < count
                         THEN {ShortRead} ELSE {})

\* the copied runs after r more bytes went from file offset src to region offset dst
AddRun(runs, dst, src, r) ==
    IF /\ runs # <<>>
       /\ runs[Len(runs)].dst + runs[Len(runs)].len = dst
       /\ runs[Len(runs)].src + runs[Len(runs)].len = src
    THEN [runs EXCEPT ![Len(runs)].len = @ + r]
    ELSE Append(runs, [dst |-> dst, src |-> src, len |-> r])

(***************************************************************************)
(* Caller: entering and leaving an interposed call                         *)
(***************************************************************************)
\* a caller that asks for MAP_FIXED names an address where nothing is mapped
\* (Test 7 of test_memory_tracking.cpp: the address of a mapping just released)
Hints == {nullptr, 1}

\* the interposed functions are callable as soon as the library is mapped:
\* after the constructor, and before it from the initialisers of objects
\* that are initialised earlier
MayCall ==
    \/ gate = "passed"
    \/ gate = "pending" /\ early < MaxEarlyCalls

ResetLocals ==
    /\ huge_mem' = nullptr
    /\ total_read' = 0
    /\ shorts' = 0
    /\ copied' = <<>>
    /\ last_read' = NoRead

\* in what a request departs from the one the tests make throughout,
\* mmap(NULL, size, PROT_READ, MAP_PRIVATE, fd, 0); MAP_FIXED comes with the
\* address it names, which is no departure of its own
Departures(a, p, fl, off) ==
    {x \in {"hint", "prot", "flags", "offset"} :
        \/ x = "hint" /\ a # nullptr /\ "MAP_FIXED" \notin fl
        \/ x = "prot" /\ p # {"PROT_READ"}
        \/ x = "flags" /\ fl # {"MAP_PRIVATE"}
        \/ x = "offset" /\ off # 0}

\* the requests callers make: that request, and the requests that depart from
\* it in one of hint, protection, flags and offset
Requested(a, p, fl, off) == Cardinality(Departures(a, p, fl, off)) <= 1

CallMmap ==
    /\ pc = "idle"
    /\ MayCall
    /\ \E a \in Hints, len \in Lengths, p \in Prots, fl \in FlagSets,
          d \in Fds, off \in Offsets, ok \in BOOLEAN :
          /\ (d < 0 => ~ok)
          /\ ("MAP_FIXED" \in fl => a \in FreeAddrs)
          /\ Requested(a, p, fl, off)
          /\ addr' = a /\ length' = len /\ prot' = p /\ fd' = d /\ offset' = off
          /\ flags' = IF d < 0 THEN fl \cup {"MAP_ANONYMOUS"} ELSE fl
          /\ fstat_ok' = ok
    /\ fn' = "mmap"
    /\ pc' = "mmap_init"
    /\ allocations0' = allocations
    /\ calls' = <<>>
    /\ retval' = 0
    /\ ResetLocals
    /\ UNCHANGED <<binder, allocations, released, errno, vm>>
    /\ early' = IF gate = "pending" THEN early + 1 ELSE early
    /\ UNCHANGED <<enable_hugepages, gate, cpu, mt, outstanding>>

CallMunmap ==
    /\ pc = "idle"
    /\ MayCall
    /\ \E a \in Addrs \cup InsideAddrs, len \in MunmapLengths :
          /\ (a \in InsideAddrs => (len = 0 \/ ReachesEnd(len)))
          /\ addr' = a /\ length' = len
          /\ outstanding' = outstanding \ {a}
    /\ prot' = {} /\ flags' = {} /\ fd' = -1 /\ offset' = 0
    /\ fstat_ok' = FALSE
    /\ fn' = "munmap"
    /\ pc' = "munmap_init"
    /\ allocations0' = allocations
    /\ calls' = <<>>
    /\ retval' = 0
    /\ ResetLocals
    /\ UNCHANGED <<binder, allocations, released, errno, vm>>
    /\ early' = IF gate = "pending" THEN early + 1 ELSE early
    /\ UNCHANGED <<enable_hugepages, gate, cpu, mt>>

\* the interposed call returns retval to the caller, which reads errno and
\* clears it before its next call
Return ==
    /\ pc = "ret"
    /\ pc' = "idle"
    /\ fn' = "none"
    /\ addr' = nullptr /\ length' = 0 /\ prot' = {} /\ flags' = {} /\ fd' = -1
    /\ offset' = 0
    /\ fstat_ok' = FALSE
    /\ allocations0' = <<>>
    /\ calls' = <<>>
    /\ retval' = 0
    /\ errno' = "0"
    /\ ResetLocals
    /\ UNCHANGED <<binder, allocations, released, vm>>
    /\ cpu' = NoCpu
    /\ outstanding' =
          IF /\ fn = "mmap"
             /\ \E i \in 1..Len(calls) : calls[i].site = 128
             /\ retval # MAP_FAILED
          THEN outstanding \cup {retval} ELSE outstanding
    /\ UNCHANGED <<enable_hugepages, gate, early, mt>>

(***************************************************************************)
(* init_functions                                                          *)
(***************************************************************************)
\* dlsym is called for each pointer that is still null; a failed dlsym ends
\* the process with exit(1)
\* mutant: the cached pointer is not consulted
NeedsResolve_always(ptr) == TRUE

\* lines 42 and 50: if (!real_mmap), if (!real_munmap)
NeedsResolve(ptr) == ptr = "null"

\* mutant: a failed dlsym is reported but the call goes on
ResolveFailedNext_continue(p) ==
    IF p = "mmap_init" THEN "mmap_check" ELSE "munmap_body"

\* lines 44-48 and 52-56: exit(1)
ResolveFailedNext(p) == "exited"

\* ok_mmap, ok_munmap: whether dlsym finds the symbol, should it be called
InitFunctions ==
    /\ pc \in {"mmap_init", "munmap_init"}
    /\ \E ok_mmap, ok_munmap \in BOOLEAN :
          LET call_mmap == NeedsResolve(real_mmap)
              past_mmap == ~call_mmap \/ ok_mmap
              call_munmap == past_mmap /\ NeedsResolve(real_munmap)
              past_munmap == past_mmap /\ (~call_munmap \/ ok_munmap)
          IN  /\ (~call_mmap => ok_mmap)
              /\ (~call_munmap => ok_munmap)
              /\ real_mmap' = IF call_mmap /\ ok_mmap THEN "resolved" ELSE real_mmap
              /\ real_munmap' = IF call_munmap /\ ok_munmap
                                THEN "resolved" ELSE real_munmap
              /\ dlsym_calls' =
                    [mmap |-> dlsym_calls["mmap"] + (IF call_mmap THEN 1 ELSE 0),
                     munmap |-> dlsym_calls["munmap"] + (IF call_munmap THEN 1 ELSE 0)]
              /\ pc' = IF past_munmap
                       THEN (IF pc = "mmap_init" THEN "mmap_check" ELSE "munmap_body")
                       ELSE ResolveFailedNext(pc)
    /\ exit_status' = IF pc' = "exited" THEN 1 ELSE exit_status
    /\ UNCHANGED <<allocations, released, allocations0, fn, args, fstat_ok, locals, calls,
                   retval, errno, vm>>
    /\ UNCHANGED <<host, mt, outstanding>>

(***************************************************************************)
(* mmap                                                                    *)
(***************************************************************************)
\* mutant: shared mappings are left to the kernel
PromotionDecision_private(a, len, p, fl, d, off, ok) ==
    /\ d >= 0
    /\ should_use_hugepages(d, len)
    /\ ok
    /\ WholeFile(off, len, FileSize(d))
    /\ "MAP_SHARED" \notin fl

\* lines 114-121: what mmap(a, len, p, fl, d, off) decides, promote (TRUE) or
\* forward (FALSE), where ok says whether fstat(d) succeeds
PromotionDecision(a, len, p, fl, d, off, ok) ==
    /\ d >= 0
    /\ should_use_hugepages(d, len)
    /\ ok
    /\ WholeFile(off, len, FileSize(d))

\* lines 114-123: the request is not a candidate (fd < 0 or below the
\* threshold): no fstat, forward at line 204
MmapNotCandidate ==
    /\ pc = "mmap_check"
    /\ ~(fd >= 0 /\ should_use_hugepages(fd, length))
    /\ pc' = "forward204"
    /\ UNCHANGED <<binder, allocations, released, allocations0, fn, args, fstat_ok, locals,
                   calls, retval, errno, vm>>
    /\ UNCHANGED <<host, mt, outstanding>>

\* lines 116-123: fstat, then the whole-file test
MmapStat ==
    /\ pc = "mmap_check"
    /\ fd >= 0 /\ should_use_hugepages(fd, length)
    /\ \/ /\ ~fstat_ok
          /\ calls' = Append(calls, Event(117, "fstat", nullptr, 0, {}, {}, fd, 0, -1))
          /\ errno' = "EBADF"
          /\ pc' = StatFailedNext
       \/ /\ fstat_ok
          /\ calls' = Append(calls, Event(117, "fstat", nullptr, 0, {}, {}, fd, 0, 0))
          /\ errno' = errno
          /\ pc' = IF WholeFile(offset, length, FileSize(fd))
                   THEN "mmap_huge" ELSE "forward204"
    /\ UNCHANGED <<binder, allocations, released, allocations0, fn, args, fstat_ok, locals,
                   retval, vm>>
    /\ UNCHANGED <<host, mt, outstanding>>

\* where the kernel may place a mapping asked for with hint h and flags fl:
\* at h itself under MAP_FIXED (replacing what is mapped there), else in any
\* free range
PlacesFor(h, fl) == IF "MAP_FIXED" \in fl THEN {h} \cap Addrs ELSE FreeAddrs

\* the real mmap, called with the caller's arguments; its result is returned
ForwardCall(site) ==
    /\ \/ \E a \in PlacesFor(addr, flags) :
             /\ calls' = Append(calls, ForwardEvent(site, a))
             /\ vm' = KernelMap(vm, a, length)
             /\ released' = [released EXCEPT ![a] = NotReleased]
             /\ retval' = a
             /\ errno' = errno
       \/ /\ calls' = Append(calls, ForwardEvent(site, MAP_FAILED))
          /\ vm' = vm
          /\ released' = released
          /\ retval' = MAP_FAILED
          /\ errno' = IF fd >= 0 /\ ~fstat_ok THEN "EBADF" ELSE "ENOMEM"
    /\ pc' = "ret"
    /\ UNCHANGED <<binder, allocations, allocations0, fn, args, fstat_ok, locals>>
    /\ UNCHANGED <<host, mt, outstanding>>

\* line 119
MmapForwardStatFailed ==
    /\ pc = "forward119"
    /\ ForwardCall(119)

\* line 204
MmapForward ==
    /\ pc = "forward204"
    /\ ForwardCall(204)

\* what the copy-in loop does next: line 157
LoopNext(tr, len) == IF tr < len THEN "mmap_read" ELSE "mmap_protect"

\* one substitute allocation: real_mmap(nullptr, length, RW, fl, -1, 0)
Allocate(site, fl, failed_next) ==
    /\ \/ \E a \in FreeAddrs :
             /\ calls' = Append(calls,
                    Event(site, "real_mmap", nullptr, length, AllocProt, fl, -1, 0, a))
             /\ vm' = KernelMap(vm, a, length)
             /\ released' = [released EXCEPT ![a] = NotReleased]
             /\ huge_mem' = a
             /\ errno' = errno
             /\ pc' = LoopNext(0, length)
             /\ retval' = retval
       \/ /\ calls' = Append(calls,
                    Event(site, "real_mmap", nullptr, length, AllocProt, fl, -1, 0,
                          MAP_FAILED))
          /\ vm' = vm
          /\ released' = released
          /\ huge_mem' = MAP_FAILED
          /\ errno' = "ENOMEM"
          /\ pc' = failed_next
          /\ retval' = IF failed_next = "ret" THEN MAP_FAILED ELSE retval
    /\ UNCHANGED <<binder, allocations, allocations0, fn, args, fstat_ok,
                   total_read, shorts, copied, last_read>>
    /\ UNCHANGED <<host, mt, outstanding>>

\* lines 128-133
MmapHuge ==
    /\ pc = "mmap_huge"
    /\ Allocate(128, HugeFlags, "mmap_anon")

\* lines 136-145
MmapAnon ==
    /\ pc = "mmap_anon"
    /\ Allocate(136, AnonFlags, AnonFailedNext)

\* lines 157-183: one iteration of the copy-in loop
MmapRead ==
    /\ pc = "mmap_read"
    /\ total_read < length
    /\ \E r \in PreadResults(ToRead(length, total_read)) :
          /\ last_read' = [n |-> last_read.n + 1,
                           count |-> ToRead(length, total_read),
                           dst |-> ReadDst(total_read),
                           src |-> ReadSrc(offset, total_read),
                           ret |-> r]
          /\ IF r <= 0
             THEN /\ errno' = IF r < 0 THEN "EIO" ELSE errno
                  /\ calls' = Append(calls,
                        Event(IF r < 0 THEN 164 ELSE 171, "real_munmap", huge_mem,
                              ReleaseLength(length, total_read), {}, {}, -1, 0,
                              KernelMunmapRet(huge_mem, ReleaseLength(length, total_read))))
                  /\ vm' = KernelMunmap(vm, huge_mem, ReleaseLength(length, total_read))
                  /\ retval' = MAP_FAILED
                  /\ pc' = "ret"
                  /\ UNCHANGED <<total_read, shorts, copied>>
             ELSE /\ total_read' = total_read + r
                  /\ shorts' = IF r < ToRead(length, total_read)
                               THEN shorts + 1 ELSE shorts
                  /\ copied' = AddRun(copied, ReadDst(total_read),
                                      ReadSrc(offset, total_read), r)
                  /\ pc' = LoopNext(total_read + r, length)
                  /\ UNCHANGED <<calls, vm, retval, errno>>
    /\ UNCHANGED <<binder, allocations, released, allocations0, fn, args, fstat_ok, huge_mem>>
    /\ UNCHANGED <<host, mt, outstanding>>

\* mutant: the protection is tightened whatever the caller asked for
NeedsProtect_always(p) == TRUE

\* line 190: if (!(prot & PROT_WRITE))
NeedsProtect(p) == "PROT_WRITE" \notin p

\* lines 190-194: mprotect when the caller did not ask for write access; its
\* result is ignored
MmapProtect ==
    /\ pc = "mmap_protect"
    /\ IF NeedsProtect(prot)
       THEN \E r \in {0, -1} :
               /\ calls' = Append(calls,
                      Event(191, "mprotect", huge_mem, length, prot, {}, -1, 0, r))
               /\ errno' = IF r < 0 THEN "EINVAL" ELSE errno
       ELSE UNCHANGED <<calls, errno>>
    /\ pc' = "mmap_track"
    /\ UNCHANGED <<binder, allocations, released, allocations0, fn, args, fstat_ok, locals,
                   retval, vm>>
    /\ UNCHANGED <<host, mt, outstanding>>

\* lines 197-199 and 70-76: track_allocation, then return huge_mem.  When
\* malloc returns NULL the stores through the null pointer end the process.
MmapTrack ==
    /\ pc = "mmap_track"
    /\ \/ /\ allocations' = track_allocation(allocations, huge_mem, length)
          /\ released' = [released EXCEPT ![huge_mem] = NotReleased]
          /\ retval' = huge_mem
          /\ pc' = "ret"
       \/ /\ pc' = "crashed"
          /\ UNCHANGED <<allocations, released, retval>>
    /\ UNCHANGED <<binder, allocations0, fn, args, fstat_ok, locals, calls, errno, vm>>
    /\ UNCHANGED <<host, mt, outstanding>>

(***************************************************************************)
(* munmap                                                                  *)
(***************************************************************************)
\* mutant: the entry is put back when the real munmap fails
AfterUnmap_restore(before, after, r) == IF r = 0 THEN after ELSE before

\* lines 214-219: the tracker once the real munmap has returned r, where
\* before and after are the tracker before and after untrack_allocation;
\* the result is not looked at
AfterUnmap(before, after, r) == after

\* lines 214-223
MunmapBody ==
    /\ pc = "munmap_body"
    /\ \E r \in KernelMunmapRets(addr,
                    UnmapLength(untrack_size(allocations, addr), length)) :
          /\ allocations' = AfterUnmap(allocations, untrack_list(allocations, addr), r)
          /\ calls' = Append(calls,
                Event(IF untrack_size(allocations, addr) > 0 THEN 219 ELSE 223,
                      "real_munmap", addr,
                      UnmapLength(untrack_size(allocations, addr), length), {}, {},
                      -1, 0, r))
          /\ vm' = IF r = 0
                   THEN KernelMunmap(vm, addr,
                            UnmapLength(untrack_size(allocations, addr), length))
                   ELSE vm
          /\ retval' = MunmapReturn(r)
          /\ errno' = IF r = 0 THEN errno ELSE "EINVAL"
    /\ released' =
          [released EXCEPT ![addr] =
              [node |-> @.node + (IF FindEntry(allocations, addr) # 0 THEN 1 ELSE 0),
               region |-> @.region
                            + (IF untrack_size(allocations, addr) > 0 THEN 1 ELSE 0)]]
    /\ pc' = "ret"
    /\ UNCHANGED <<binder, allocations0, fn, args, fstat_ok, locals>>
    /\ UNCHANGED <<host, mt, outstanding>>

(***************************************************************************)
(* Library unload: zen5_optimizer_fini -> cleanup_hugepage_allocations     *)
(***************************************************************************)
\* what the destructor writes to stderr: zen5_optimizer.cpp lines 41 and 47
Banner(site) == Event(site, "fprintf", nullptr, 0, {}, {}, -1, 0, 0)

\* cleanup_hugepage_allocations, lines 98-102: the calls it makes for the list
\* it finds, one free per node from the head on, and nothing else
cleanup_hugepage_allocations(list) ==
    [i \in 1..Len(list) |->
        Event(100, "free", list[i].addr, list[i].size, {}, {}, -1, 0, 0)]

\* number of calls named f in log that concern address a
CallsFor(log, f, a) == Len(SelectSeq(log, LAMBDA e : e.fn = f /\ e.addr = a))

Fini ==
    /\ pc = "idle"
    /\ gate = "passed"
    /\ fn' = "fini"
    /\ allocations0' = allocations
    /\ calls' = <<Banner(41)>> \o cleanup_hugepage_allocations(allocations)
                    \o <<Banner(47)>>
    /\ allocations' = <<>>
    /\ released' =
          [a \in DOMAIN released |->
              [node |-> released[a].node
                          + CallsFor(cleanup_hugepage_allocations(allocations),
                                     "free", a),
               region |-> released[a].region
                          + CallsFor(cleanup_hugepage_allocations(allocations),
                                     "real_munmap", a)]]
    /\ vm' = vm
    /\ pc' = "unloaded"
    /\ UNCHANGED <<binder, args, fstat_ok, locals, retval, errno>>
    /\ UNCHANGED <<host, mt, outstanding>>

(***************************************************************************)
(* cpu_validator.cpp and the library constructor                           *)
(***************************************************************************)
\* lines 31-34: vendor[0..3] = ebx, vendor[4..7] = edx, vendor[8..11] = ecx
vendor(regs) == <<regs.ebx, regs.edx, regs.ecx>>

\* "AuthenticAMD" in words of four characters
AuthenticAMD == <<"Auth", "enti", "cAMD">>

\* lines 46-49
family(eax) == (eax \div 256) % 16

extended_family(eax) == (eax \div 1048576) % 256

model(eax) == (eax \div 16) % 16

extended_model(eax) == (eax \div 65536) % 16

\* mutant: the extended family is added whatever the base family is
display_family_sum(eax) == family(eax) + extended_family(eax)

\* lines 52-55
display_family(eax) ==
    IF family(eax) = 15 THEN family(eax) + extended_family(eax) ELSE family(eax)

\* lines 58-61
display_model(eax) ==
    IF family(eax) = 15 \/ family(eax) = 6
    THEN 16 * extended_model(eax) + model(eax)
    ELSE model(eax)

\* lines 20-76, on the answers c of the machine
is_zen5_cpu(c) ==
    /\ c.leaf0
    /\ vendor(c.vendor) = AuthenticAMD
    /\ c.leaf1
    /\ display_family(c.eax) = ZEN5_FAMILY

\* mutant: a failed validation is reported but the constructor goes on
GateFailedNext_continue == "ctor_config"

\* cpu_validator.cpp line 84: exit(1)
GateFailedNext == "rejected"

\* zen5_optimizer.cpp lines 21-22: the identification banner
CtorBanner ==
    /\ pc = "idle"
    /\ gate = "pending"
    /\ fn' = "init"
    /\ calls' = <<Banner(21)>>
    /\ \E c \in Cpus : cpu' = c
    /\ early' = 0
    /\ pc' = "ctor_gate"
    /\ UNCHANGED <<binder, allocations, released, allocations0, args, fstat_ok,
                   locals, retval, errno, vm, enable_hugepages, gate, mt, outstanding>>

\* zen5_optimizer.cpp line 25, cpu_validator.cpp lines 79-88:
\* validate_zen5_or_exit
CtorGate ==
    /\ pc = "ctor_gate"
    /\ IF is_zen5_cpu(cpu)
       THEN /\ gate' = "passed"
            /\ calls' = Append(calls, Banner(87))
            /\ pc' = "ctor_config"
            /\ exit_status' = exit_status
       ELSE /\ gate' = "failed"
            /\ calls' = calls \o <<Banner(81), Banner(82), Banner(83)>>
            /\ pc' = GateFailedNext
            /\ exit_status' = IF pc' = "rejected" THEN 1 ELSE exit_status
    /\ UNCHANGED <<real_mmap, real_munmap, dlsym_calls, allocations, released,
                   allocations0, fn, args, fstat_ok, locals, retval, errno, vm,
                   enable_hugepages, cpu, early, mt, outstanding>>

\* zen5_optimizer.cpp lines 27-36: the configuration summary; the constructor
\* returns
CtorConfig ==
    /\ pc = "ctor_config"
    /\ calls' = calls \o <<Banner(IF enable_hugepages = 1 THEN 28 ELSE 31),
                            Banner(35)>>
    /\ pc' = "ret"
    /\ UNCHANGED <<binder, allocations, released, allocations0, fn, args,
                   fstat_ok, locals, retval, errno, vm, host, mt, outstanding>>

Next ==
    \/ CtorBanner
    \/ CtorGate
    \/ CtorConfig
    \/ CallMmap
    \/ CallMunmap
    \/ Return
    \/ InitFunctions
    \/ MmapNotCandidate
    \/ MmapStat
    \/ MmapForwardStatFailed
    \/ MmapForward
    \/ MmapHuge
    \/ MmapAnon
    \/ MmapRead
    \/ MmapProtect
    \/ MmapTrack
    \/ MunmapBody
    \/ Fini

Spec == Init /\ [][Next]_vars

(***************************************************************************)
(* Concurrent runs: NumThreads threads, each mapping one file of its own   *)
(* through the promotion path and then unmapping it (stress_worker).  The  *)
(* tracker is the linked list itself, one step per access to memory that   *)
(* other threads can reach: lines 70-94 take no lock.                      *)
(***************************************************************************)
\* the region the kernel gave thread t: distinct calls get distinct regions
RegionOf(t) == t

\* every thread maps a whole file of 1.5 times the threshold
ThreadLength == FileSize(5)

Crashed == \E t \in Threads : thr[t].pc = "crashed"

\* the tracker as a walk from the global pointer finds it, cut after fuel nodes
RECURSIVE Walk(_, _)
Walk(n, fuel) ==
    IF n = nullptr \/ fuel = 0 THEN <<>>
    ELSE <<n>> \o Walk(heap[n].next, fuel - 1)

\* thread t goes to position p with its locals as in record r
Goto(t, p, r) == thr' = [thr EXCEPT ![t] = [r EXCEPT !.pc = p]]

\* a read or write of node n: defined when n is live; on a freed node the
\* thread either sees what is there now or faults
Touch(t, n, then) ==
    \/ then
    \/ /\ ~heap[n].live
       /\ Goto(t, "crashed", thr[t])
       /\ UNCHANGED <<heap, head>>

\* mmap, lines 108-194: the promotion of thread t's file up to track_allocation
ThreadMmap(t) ==
    /\ ~Crashed
    /\ thr[t].pc = "start"
    /\ \/ Goto(t, "track_malloc", thr[t])
       \/ Goto(t, "failed", [thr[t] EXCEPT !.ret = MAP_FAILED])
    /\ UNCHANGED <<single, heap, head>>

\* lines 71-73: malloc, then the writes of addr and size through its result
TrackMalloc(t) ==
    /\ ~Crashed
    /\ thr[t].pc = "track_malloc"
    /\ \/ \E n \in Nodes :
             /\ ~heap[n].live
             /\ heap' = [heap EXCEPT ![n] =
                            [addr |-> RegionOf(t), size |-> ThreadLength,
                             next |-> @.next, live |-> TRUE]]
             /\ Goto(t, "track_link", [thr[t] EXCEPT !.alloc = n])
       \/ /\ Goto(t, "crashed", thr[t])
          /\ heap' = heap
    /\ UNCHANGED <<single, head>>

\* line 74: alloc->next = allocations
TrackLink(t) ==
    /\ ~Crashed
    /\ thr[t].pc = "track_link"
    /\ heap' = [heap EXCEPT ![thr[t].alloc].next = head]
    /\ Goto(t, "track_publish", thr[t])
    /\ UNCHANGED <<single, head>>

\* line 75: allocations = alloc; then mmap returns huge_mem (line 199)
TrackPublish(t) ==
    /\ ~Crashed
    /\ thr[t].pc = "track_publish"
    /\ head' = thr[t].alloc
    /\ Goto(t, "mapped", [thr[t] EXCEPT !.ret = RegionOf(t)])
    /\ UNCHANGED <<single, heap>>

\* munmap(addr, length) entered; lines 80-81: prev = &allocations, curr = allocations
UntrackStart(t) ==
    /\ ~Crashed
    /\ thr[t].pc = "mapped"
    /\ Goto(t, "untrack_test", [thr[t] EXCEPT !.prev = nullptr, !.curr = head])
    /\ UNCHANGED <<single, heap, head>>

\* lines 83-85 and 93: the loop test, the comparison, the read of size
UntrackTest(t) ==
    /\ ~Crashed
    /\ thr[t].pc = "untrack_test"
    /\ IF thr[t].curr = nullptr
       THEN /\ Goto(t, "unmap", [thr[t] EXCEPT !.size = 0])
            /\ UNCHANGED <<heap, head>>
       ELSE Touch(t, thr[t].curr,
                  /\ IF heap[thr[t].curr].addr = RegionOf(t)
                     THEN Goto(t, "untrack_unlink",
                               [thr[t] EXCEPT !.size = heap[thr[t].curr].size])
                     ELSE Goto(t, "untrack_advance", thr[t])
                  /\ UNCHANGED <<heap, head>>)
    /\ UNCHANGED single

\* lines 90-91: prev = &curr->next; curr = curr->next
UntrackAdvance(t) ==
    /\ ~Crashed
    /\ thr[t].pc = "untrack_advance"
    /\ Touch(t, thr[t].curr,
             /\ Goto(t, "untrack_test",
                     [thr[t] EXCEPT !.prev = thr[t].curr,
                                    !.curr = heap[thr[t].curr].next])
             /\ UNCHANGED <<heap, head>>)
    /\ UNCHANGED single

\* line 86: *prev = curr->next
UntrackUnlink(t) ==
    /\ ~Crashed
    /\ thr[t].pc = "untrack_unlink"
    /\ Touch(t, thr[t].curr,
             IF thr[t].prev = nullptr
             THEN /\ head' = heap[thr[t].curr].next
                  /\ heap' = heap
                  /\ Goto(t, "untrack_free", thr[t])
             ELSE Touch(t, thr[t].prev,
                        /\ heap' = [heap EXCEPT ![thr[t].prev].next =
                                                    heap[thr[t].curr].next]
                        /\ head' = head
                        /\ Goto(t, "untrack_free", thr[t])))
    /\ UNCHANGED single

\* line 87: free(curr); freeing a freed node ends the process or goes unnoticed
UntrackFree(t) ==
    /\ ~Crashed
    /\ thr[t].pc = "untrack_free"
    /\ Touch(t, thr[t].curr,
             /\ heap' = [heap EXCEPT ![thr[t].curr].live = FALSE]
             /\ head' = head
             /\ Goto(t, "unmap", thr[t]))
    /\ UNCHANGED single

\* lines 215-223: the real munmap, with the tracked size when one was found
ThreadUnmap(t) ==
    /\ ~Crashed
    /\ thr[t].pc = "unmap"
    /\ Goto(t, "done",
            [thr[t] EXCEPT
                !.site = IF thr[t].size > 0 THEN 219 ELSE 223,
                !.unmapped = UnmapLength(thr[t].size, ThreadLength),
                !.ret = MunmapReturn(KernelMunmapRet(RegionOf(t),
                                        UnmapLength(thr[t].size, ThreadLength)))])
    /\ UNCHANGED <<single, heap, head>>

NextMT ==
    \/ \E t \in Threads : ThreadMmap(t)
    \/ \E t \in Threads : TrackMalloc(t)
    \/ \E t \in Threads : TrackLink(t)
    \/ \E t \in Threads : TrackPublish(t)
    \/ \E t \in Threads : UntrackStart(t)
    \/ \E t \in Threads : UntrackTest(t)
    \/ \E t \in Threads : UntrackAdvance(t)
    \/ \E t \in Threads : UntrackUnlink(t)
    \/ \E t \in Threads : UntrackFree(t)
    \/ \E t \in Threads : ThreadUnmap(t)

\* the library is loaded and its constructor has passed the gate
InitMT ==
    /\ InitProcess
    /\ enable_hugepages = ENABLE_HUGEPAGES
    /\ gate = "passed"

SpecMT == InitMT /\ [][NextMT]_vars

(***************************************************************************)
(* The tracker on its own: track_allocation and untrack_allocation applied *)
(* to lists of up to MaxEntries entries, in any order of addresses         *)
(***************************************************************************)
TrackerAddrs == 1..MaxEntries

TrackerSizes == {FileSize(3), FileSize(5)}

\* what the two functions do not touch
untracked == <<binder, released, pc, prot, flags, fd, offset, fstat_ok, locals,
               calls, errno, vm, host, outstanding, mt>>

\* track_allocation(a, size), lines 70-76, for an address not tracked yet
TrackerTrack ==
    /\ Len(allocations) < MaxEntries
    /\ \E a \in TrackerAddrs, size \in TrackerSizes :
          /\ \A i \in 1..Len(allocations) : allocations[i].addr # a
          /\ allocations' = track_allocation(allocations, a, size)
          /\ addr' = a
          /\ length' = size
    /\ allocations0' = allocations
    /\ fn' = "track_allocation"
    /\ retval' = 0
    /\ UNCHANGED untracked

\* size = untrack_allocation(a), lines 79-94, for any address
TrackerUntrack ==
    /\ \E a \in TrackerAddrs :
          /\ allocations' = untrack_list(allocations, a)
          /\ retval' = untrack_size(allocations, a)
          /\ addr' = a
    /\ length' = 0
    /\ allocations0' = allocations
    /\ fn' = "untrack_allocation"
    /\ UNCHANGED untracked

NextTracker ==
    \/ TrackerTrack
    \/ TrackerUntrack

SpecTracker == InitMT /\ [][NextTracker]_vars

(***************************************************************************)
(* init_functions under threads: each thread calls mmap and then munmap    *)
(* (stress_worker of test_stress.cpp); the steps are the reads and writes  *)
(* of the two cached pointers, which no lock or atomic protects            *)
(***************************************************************************)
\* mutant: the loader hands out another address at each lookup
dlsym_moving(sym, ok) ==
    IF ~ok THEN "null" ELSE IF dlsym_calls[sym] = 0 THEN "resolved" ELSE "moved"

\* lines 43 and 51: dlsym(RTLD_NEXT, sym) is the address of the next
\* definition of sym in the process, the same at every call, or NULL
dlsym(sym, ok) == IF ok THEN "resolved" ELSE "null"

\* a thread has called exit(1): the process is over for every thread
Exited == \E t \in Threads : thr[t].pc = "exited"

Running == ~Crashed /\ ~Exited

\* the rest of the one-thread state, which the binder steps of a thread leave alone
unbound == <<allocations, released, allocations0, pc, fn, args, fstat_ok, locals,
             calls, retval, errno, vm, host, outstanding>>

\* the lines of the calls of init_functions in mmap and in munmap
InitInMmap == 112

InitInMunmap == 211

\* the interposed function entered, mmap first and munmap once mmap has
\* returned; line 42: if (!real_mmap)
ThreadInitMmap(t) ==
    /\ Running
    /\ thr[t].pc \in {"start", "mapped"}
    /\ Goto(t, IF NeedsResolve(real_mmap) THEN "resolve_mmap" ELSE "init_munmap",
            [thr[t] EXCEPT !.site = IF thr[t].pc = "start" THEN InitInMmap
                                    ELSE InitInMunmap])
    /\ UNCHANGED <<single, heap, head>>

\* lines 43-48: real_mmap = dlsym(RTLD_NEXT, "mmap"); exit(1) when it is NULL.
\* A lookup cannot fail once one has succeeded.
ThreadResolveMmap(t) ==
    /\ Running
    /\ thr[t].pc = "resolve_mmap"
    /\ \E ok \in BOOLEAN :
          /\ (real_mmap # "null" => ok)
          /\ real_mmap' = dlsym("mmap", ok)
          /\ exit_status' = IF ok THEN exit_status ELSE 1
          /\ Goto(t, IF ok THEN "init_munmap" ELSE "exited", thr[t])
    /\ dlsym_calls' = [dlsym_calls EXCEPT !["mmap"] = @ + 1]
    /\ UNCHANGED <<real_munmap, unbound, heap, head>>

\* line 50: if (!real_munmap)
ThreadInitMunmap(t) ==
    /\ Running
    /\ thr[t].pc = "init_munmap"
    /\ Goto(t, IF NeedsResolve(real_munmap) THEN "resolve_munmap" ELSE "call", thr[t])
    /\ UNCHANGED <<single, heap, head>>

\* lines 51-56: real_munmap = dlsym(RTLD_NEXT, "munmap"); exit(1) when it is NULL
ThreadResolveMunmap(t) ==
    /\ Running
    /\ thr[t].pc = "resolve_munmap"
    /\ \E ok \in BOOLEAN :
          /\ (real_munmap # "null" => ok)
          /\ real_munmap' = dlsym("munmap", ok)
          /\ exit_status' = IF ok THEN exit_status ELSE 1
          /\ Goto(t, IF ok THEN "call" ELSE "exited", thr[t])
    /\ dlsym_calls' = [dlsym_calls EXCEPT !["munmap"] = @ + 1]
    /\ UNCHANGED <<real_mmap, unbound, heap, head>>

\* the call through the cached pointer: real_mmap at line 128 or 204,
\* real_munmap at line 219 or 223; a call through a null pointer faults
ThreadCallReal(t) ==
    /\ Running
    /\ thr[t].pc = "call"
    /\ LET ptr == IF thr[t].site = InitInMmap THEN real_mmap ELSE real_munmap
       IN  Goto(t, IF ptr = "null" THEN "crashed"
                   ELSE IF thr[t].site = InitInMmap THEN "mapped" ELSE "done",
                [thr[t] EXCEPT !.ret = IF thr[t].site = InitInMmap THEN RegionOf(t) ELSE 0])
    /\ UNCHANGED <<single, heap, head>>

NextBind ==
    \/ \E t \in Threads : ThreadInitMmap(t)
    \/ \E t \in Threads : ThreadResolveMmap(t)
    \/ \E t \in Threads : ThreadInitMunmap(t)
    \/ \E t \in Threads : ThreadResolveMunmap(t)
    \/ \E t \in Threads : ThreadCallReal(t)

SpecBind == InitMT /\ [][NextBind]_vars

(***************************************************************************)
(* Properties                                                              *)
(***************************************************************************)
\* the call in progress is f and is about to hand retval to its caller
AtReturn(f) == pc = "ret" /\ fn = f

\* the calls of the call in progress to the real mmap / real munmap, in order
RealMmapCalls == SelectSeq(calls, LAMBDA e : e.fn = "real_mmap")

RealMunmapCalls == SelectSeq(calls, LAMBDA e : e.fn = "real_munmap")

\* the call in progress took the promotion path: it asked for substitute memory
PromotionPath == \E i \in 1..Len(calls) : calls[i].site = 128

\* the library was built with the feature flag as config.h has it
AsShipped == enable_hugepages = ENABLE_HUGEPAGES

\* the five conditions on the request and on the file
Eligible ==
    /\ fd >= 0
    /\ length >= 1073741824
    /\ offset = 0
    /\ fstat_ok
    /\ length = FileSize(fd)

\* e is a call of the real mmap with the caller's six arguments
CallersArguments(e) ==
    /\ e.fn = "real_mmap"
    /\ e.addr = addr /\ e.length = length /\ e.prot = prot
    /\ e.flags = flags /\ e.fd = fd /\ e.offset = offset

\* list with its i-th element removed
Without(list, i) == SubSeq(list, 1, i - 1) \o SubSeq(list, i + 1, Len(list))

C2_RoundTripFidelity ==
    (AtReturn("mmap") /\ PromotionPath /\ retval # MAP_FAILED) =>
        /\ total_read = length
        /\ copied = <<[dst |-> 0, src |-> 0, len |-> length]>>
        /\ retval = huge_mem
        /\ vm[retval] = <<0, length>>

C2_Witness ==
    /\ AtReturn("mmap")
    /\ PromotionPath
    /\ retval # MAP_FAILED
    /\ shorts > 0
    /\ last_read.n > 4

\* C3: a munmap whose address is the base of a tracked entry removes that entry
\* and calls the real munmap exactly once, with that address and the tracked
\* length, never with the caller's length.
C3_TrackedUnmapUsesTrackedLength ==
    (AtReturn("munmap") /\ \E i \in 1..Len(allocations0) : allocations0[i].addr = addr) =>
        /\ Len(calls) = 1
        /\ calls[1].fn = "real_munmap"
        /\ calls[1].addr = addr
        /\ \E i \in 1..Len(allocations0) :
              /\ allocations0[i].addr = addr
              /\ calls[1].length = allocations0[i].size
              /\ allocations = Without(allocations0, i)
        /\ \A j \in 1..Len(allocations) : allocations[j].addr # addr

C3_Witness ==
    /\ AtReturn("munmap")
    /\ \E i \in 1..Len(allocations0) :
          /\ allocations0[i].addr = addr
          /\ length > 0
          /\ length < allocations0[i].size
    /\ Len(allocations0) > 1

\* C4: an mmap that is not eligible (fd < 0, or length below the threshold, or
\* offset # 0, or length # file size) calls the real mmap exactly once with the
\* caller's six arguments, returns its result and leaves the tracker unchanged.
C4_IneligibleForwardedUnchanged ==
    (AtReturn("mmap") /\ (\/ fd < 0
                          \/ length < 1073741824
                          \/ offset # 0
                          \/ length # FileSize(fd))) =>
        /\ Len(RealMmapCalls) = 1
        /\ CallersArguments(RealMmapCalls[1])
        /\ retval = RealMmapCalls[1].ret
        /\ RealMunmapCalls = <<>>
        /\ allocations = allocations0

C4_Witness ==
    /\ AtReturn("mmap")
    /\ fd >= 0 /\ length >= 1073741824 /\ fstat_ok /\ length = FileSize(fd)
    /\ offset # 0
    /\ retval # MAP_FAILED
    /\ allocations # <<>>

\* C5: a tracker entry is created if and only if a promoted mmap returns
\* success: then exactly one entry {returned address, requested length} has
\* been added when the address is returned; a forwarded call, a failed
\* promotion and a call still in progress add none.
C5_EntryIffPromotedSuccess ==
    fn = "mmap" =>
        IF pc = "ret" /\ PromotionPath /\ retval # MAP_FAILED
        THEN \E i \in 1..Len(allocations) :
                /\ allocations[i] = [addr |-> retval, size |-> length]
                /\ Without(allocations, i) = allocations0
        ELSE allocations = allocations0

C5_Witness ==
    /\ AtReturn("mmap")
    /\ PromotionPath
    /\ retval # MAP_FAILED
    /\ allocations0 # <<>>
    /\ Len(allocations) = Len(allocations0) + 1

\* the copy-in of the call in progress ended on a read error or an end of file
ReadFailed == last_read.n > 0 /\ last_read.ret <= 0

\* the large-page attempt / the plain anonymous attempt of the call in
\* progress was made and failed
HugeFailed == \E i \in 1..Len(calls) : calls[i].site = 128 /\ calls[i].ret = MAP_FAILED

AnonAttempted == \E i \in 1..Len(calls) : calls[i].site = 136

AnonFailed == \E i \in 1..Len(calls) : calls[i].site = 136 /\ calls[i].ret = MAP_FAILED

\* C6: if a positioned read returns an error, or end of file before length
\* bytes were read, the substitute region is released through the real munmap
\* with the full requested length, mmap returns the failure sentinel, nothing
\* is read, allocated or forwarded afterwards, and the tracker is unchanged.
C6_ReadFailureReleasesAndFails ==
    (fn = "mmap" /\ ReadFailed) =>
        /\ pc = "ret"
        /\ retval = MAP_FAILED
        /\ total_read < length
        /\ Len(RealMunmapCalls) = 1
        /\ calls[Len(calls)].fn = "real_munmap"
        /\ calls[Len(calls)].addr = huge_mem
        /\ calls[Len(calls)].length = length
        /\ calls[Len(calls) - 1].fn = "real_mmap"
        /\ calls[Len(calls) - 1].ret = huge_mem
        /\ \A i \in 1..Len(calls) : calls[i].site \notin {119, 204}
        /\ vm[huge_mem] = Unmapped
        /\ allocations = allocations0

C6_Witness ==
    /\ AtReturn("mmap")
    /\ last_read.ret = 0
    /\ total_read > 0
    /\ allocations # <<>>

\* C7: if the large-page allocation and the plain anonymous allocation both
\* fail, mmap returns the failure sentinel, the caller's request is never
\* forwarded to the real mmap, and the tracker is unchanged.
C7_BothAllocationsFail ==
    (fn = "mmap" /\ HugeFailed /\ AnonFailed) =>
        /\ pc = "ret"
        /\ retval = MAP_FAILED
        /\ calls[Len(calls)].site = 136
        /\ \A i \in 1..Len(calls) : calls[i].site \notin {119, 204}
        /\ \A i \in 1..Len(calls) :
              calls[i].fn = "real_mmap" => ~(calls[i].fd = fd /\ calls[i].flags = flags)
        /\ last_read.n = 0
        /\ allocations = allocations0

C7_Witness ==
    /\ AtReturn("mmap")
    /\ HugeFailed
    /\ AnonFailed
    /\ allocations # <<>>

\* C8: the first allocation attempt of an eligible request asks for anonymous
\* memory of exactly the requested length with the large-page flag; the plain
\* anonymous attempt (same length, no large-page flag) comes only directly
\* after a failed large-page attempt; copy-in starts only after one of the two
\* succeeded; a large-page failure alone is never returned as a failure.
C8_FallbackOrdering ==
    fn = "mmap" =>
        /\ \A i \in 1..Len(calls) :
              calls[i].site = 128 =>
                 /\ calls[i] = Event(128, "real_mmap", nullptr, length,
                                     {"PROT_READ", "PROT_WRITE"},
                                     {"MAP_PRIVATE", "MAP_ANONYMOUS", "MAP_HUGETLB"},
                                     -1, 0, calls[i].ret)
                 /\ \A j \in 1..(i - 1) : calls[j].fn # "real_mmap"
        /\ \A i \in 1..Len(calls) :
              calls[i].site = 136 =>
                 /\ i > 1
                 /\ calls[i - 1].site = 128
                 /\ calls[i - 1].ret = MAP_FAILED
                 /\ calls[i] = Event(136, "real_mmap", nullptr, length,
                                     {"PROT_READ", "PROT_WRITE"},
                                     {"MAP_PRIVATE", "MAP_ANONYMOUS"},
                                     -1, 0, calls[i].ret)
        /\ (AsShipped /\ Eligible /\ RealMmapCalls # <<>>) =>
              RealMmapCalls[1].site = 128
        /\ (pc = "mmap_anon") => (HugeFailed /\ ~AnonAttempted)
        /\ (pc = "mmap_read" \/ last_read.n > 0) =>
              \E i \in 1..Len(calls) :
                 /\ calls[i].site \in {128, 136}
                 /\ calls[i].ret # MAP_FAILED
                 /\ calls[i].ret = huge_mem
                 /\ \A j \in (i + 1)..Len(calls) : calls[j].fn # "real_mmap"
        /\ (pc = "ret" /\ HugeFailed /\ retval = MAP_FAILED) =>
              (AnonFailed \/ ReadFailed)

C8_Witness ==
    /\ AtReturn("mmap")
    /\ HugeFailed
    /\ AnonAttempted
    /\ ~AnonFailed
    /\ retval # MAP_FAILED
    /\ total_read = length

\* C9: whenever mmap returns the failure sentinel from the promotion path
\* (both allocations failed, a read error, or an unexpected end of file), errno
\* is non-zero on return.
C9_ErrnoSetOnPromotionFailure ==
    (AtReturn("mmap") /\ PromotionPath /\ retval = MAP_FAILED) => errno # "0"

\* C10: if fstat fails for a request with fd >= 0 and length >= threshold, the
\* call is neither promoted nor failed by the interposer: it is forwarded to
\* the real mmap with the caller's arguments and the tracker is unchanged.
C10_StatFailureForwards ==
    (AsShipped /\ fn = "mmap" /\ pc \in {"ret", "crashed"}
        /\ fd >= 0 /\ length >= 1073741824 /\ ~fstat_ok) =>
        /\ pc = "ret"
        /\ ~PromotionPath
        /\ Len(calls) = 2
        /\ calls[1].fn = "fstat" /\ calls[1].fd = fd /\ calls[1].ret = -1
        /\ CallersArguments(calls[2])
        /\ retval = calls[2].ret
        /\ allocations = allocations0

C10_Witness ==
    /\ AtReturn("mmap")
    /\ fd >= 0 /\ length >= 1073741824 /\ ~fstat_ok
    /\ offset = 0 /\ length = FileSize(fd)
    /\ retval # MAP_FAILED
    /\ allocations # <<>>

\* the address of the munmap in progress was the base of a tracked entry when
\* the call was entered
TrackedAtEntry == \E i \in 1..Len(allocations0) : allocations0[i].addr = addr

\* C11: a munmap whose address is not the base of any tracked entry calls the
\* real munmap exactly once with the caller's (address, length) and leaves the
\* tracker unchanged; on the tracked and on the untracked path munmap returns
\* exactly what the real munmap returned.
C11_UntrackedUnmapForwarded ==
    AtReturn("munmap") =>
        /\ Len(calls) = 1
        /\ calls[1].fn = "real_munmap"
        /\ retval = calls[1].ret
        /\ ~TrackedAtEntry =>
              /\ calls[1].addr = addr
              /\ calls[1].length = length
              /\ allocations = allocations0

C11_Witness ==
    /\ AtReturn("munmap")
    /\ ~TrackedAtEntry
    /\ allocations0 # <<>>
    /\ length = 0
    /\ retval = -1

\* C12: a munmap of an address whose entry an earlier munmap already removed
\* (and where nothing was mapped since) finds no entry: it makes the one call
\* real_munmap(addr, length) of line 223 with the caller's arguments, returns
\* normally, releases nothing a second time, and leaves every tracker entry
\* as it was.
C12_SecondUnmapForwarded ==
    [][(pc = "munmap_body" /\ released[addr].node >= 1) =>
          /\ pc' = "ret"
          /\ calls' = <<Event(223, "real_munmap", addr, length, {}, {}, -1, 0,
                              retval')>>
          /\ allocations' = allocations
          /\ released' = released
          /\ released[addr] = [node |-> 1, region |-> 1]]_vars

C12_Witness ==
    /\ AtReturn("munmap")
    /\ released[addr].node = 1
    /\ ~TrackedAtEntry
    /\ allocations # <<>>
    /\ length = FileSize(4)
    /\ calls[1].length = FileSize(4)
    /\ retval = 0

C14_SizeIsAllocatedLength ==
    [][\A i \in 1..Len(allocations') :
          \/ \E j \in 1..Len(allocations) : allocations[j] = allocations'[i]
          \/ \E k \in 1..Len(calls) :
                /\ calls[k].site \in {128, 136}
                /\ calls[k].fn = "real_mmap"
                /\ "MAP_ANONYMOUS" \in calls[k].flags
                /\ calls[k].ret = allocations'[i].addr
                /\ calls[k].length = allocations'[i].size]_vars

\* a tracked munmap given another length, with another entry left as it was
C14_Witness ==
    /\ AtReturn("munmap")
    /\ TrackedAtEntry
    /\ length # calls[1].length
    /\ Len(allocations) = 1
    /\ allocations[1].size \in {FileSize(3), FileSize(5)}
    /\ allocations[1].size # calls[1].length

\* C15: when the destructor has run, every entry that was still in the tracker
\* has had its region unmapped with the tracked length, the tracker is empty,
\* and the shutdown banner is the last thing the destructor did.
C15_DestructorReleasesRegions ==
    pc = "unloaded" =>
        /\ allocations = <<>>
        /\ calls[Len(calls)] = Banner(47)
        /\ \A i \in 1..Len(allocations0) :
              \E k \in 1..(Len(calls) - 1) :
                  /\ calls[k].fn = "real_munmap"
                  /\ calls[k].addr = allocations0[i].addr
                  /\ calls[k].length = allocations0[i].size

\* C16: after the destructor no region was released more than once, neither
\* its node nor its memory, and every entry the destructor found was released
\* exactly once, node and memory.
C16_ExactlyOnceRelease ==
    pc = "unloaded" =>
        \A a \in Addrs :
            /\ released[a].node <= 1
            /\ released[a].region <= 1
            /\ (\E i \in 1..Len(allocations0) : allocations0[i].addr = a) =>
                  released[a] = [node |-> 1, region |-> 1]

\* some call of the call in progress went through a cached entry point
SomeRealCall ==
    \E k \in 1..Len(calls) : calls[k].fn \in {"real_mmap", "real_munmap"}

\* C19: whenever the interposer has called the real mmap or the real munmap,
\* both entry points are resolved; dlsym is called at most once per entry
\* point in the life of the process, so every call after the resolving one
\* only tests the cached pointers.
C19_ResolvedOnceBeforeUse ==
    /\ SomeRealCall => (real_mmap = "resolved" /\ real_munmap = "resolved")
    /\ \A s \in {"mmap", "munmap"} : dlsym_calls[s] <= 1
    /\ real_mmap = "resolved" => dlsym_calls["mmap"] = 1
    /\ real_munmap = "resolved" => dlsym_calls["munmap"] = 1

\* a call made after several others: it reuses the cached entry points
C19_Witness ==
    /\ AtReturn("munmap")
    /\ TrackedAtEntry
    /\ Len(allocations0) = NumRegions
    /\ SomeRealCall
    /\ dlsym_calls = [mmap |-> 1, munmap |-> 1]

\* dlsym was called for an entry point and left it null
ResolveFailed ==
    \/ dlsym_calls["mmap"] >= 1 /\ real_mmap = "null"
    \/ dlsym_calls["munmap"] >= 1 /\ real_munmap = "null"

\* C20: once a resolution has failed the process has exited with status 1 from
\* inside the interposed call: the call is never at its return, it has
\* invoked no underlying primitive, and the process was not terminated for any
\* other reason.
C20_ResolveFailureExits ==
    /\ ResolveFailed =>
          /\ pc = "exited"
          /\ exit_status = 1
          /\ calls = <<>>
          /\ fn \in {"mmap", "munmap"}
    /\ pc = "exited" => ResolveFailed

C20_Witness ==
    /\ pc = "exited"
    /\ fn = "mmap"
    /\ real_mmap = "resolved"
    /\ real_munmap = "null"
    /\ dlsym_calls = [mmap |-> 1, munmap |-> 1]
    /\ exit_status = 1

\* every thread's mmap has returned and no thread has called munmap yet
AllMmapsReturned == \A t \in Threads : thr[t].pc \in {"mapped", "failed"}

\* every thread has finished its map-then-unmap cycle
AllThreadsFinished == \A t \in Threads : thr[t].pc \in {"done", "failed"}

\* C17: once the concurrent promoted mmaps have all returned, the tracker is a
\* finite list of live nodes that holds, for each address returned with
\* success, exactly one entry with that address and the mapped length, and
\* nothing else.
C17_ConcurrentTrackKeepsAll ==
    AllMmapsReturned =>
        LET list == Walk(head, NumThreads + 1)
        IN  /\ Len(list) = Cardinality({t \in Threads : thr[t].pc = "mapped"})
            /\ \A i \in 1..Len(list) : heap[list[i]].live
            /\ \A t \in Threads :
                  thr[t].pc = "mapped" =>
                      /\ thr[t].ret = RegionOf(t)
                      /\ \E i \in 1..Len(list) :
                            /\ heap[list[i]].addr = RegionOf(t)
                            /\ heap[list[i]].size = ThreadLength
                            /\ \A j \in 1..Len(list) :
                                  heap[list[j]].addr = RegionOf(t) => j = i

\* C18: in concurrent map-then-unmap cycles a thread only ever unlinks and
\* frees the node of its own region, every munmap that has returned found
\* that node and released with the tracked length at line 219, and the
\* tracker is empty once every thread has finished.
C18_ConcurrentCyclesFindOwnEntry ==
    /\ \A t \in Threads :
          /\ thr[t].pc \in {"untrack_unlink", "untrack_free"} =>
                heap[thr[t].curr].addr = RegionOf(t)
          /\ thr[t].pc = "done" =>
                /\ thr[t].site = 219
                /\ thr[t].unmapped = ThreadLength
                /\ thr[t].ret = 0
    /\ AllThreadsFinished => head = nullptr

\* the constructor has the verdict of the gate on the machine's answers
GateDecided == fn = "init" /\ gate # "pending"

SummaryAt == {k \in 1..Len(calls) : calls[k].site \in {28, 31}}

\* C22: the constructor's first output is the identification banner; the
\* configuration summary is written only after the gate has passed, after the
\* banner, and at most once; a failed gate ends the process there and then
\* with exit status 1 and without the summary, and the process stays ended.
C22_ConstructorOrder ==
    /\ fn = "init" =>
          /\ calls[1] = Banner(21)
          /\ \A k \in SummaryAt : k > 1 /\ gate = "passed"
          /\ Cardinality(SummaryAt) <= 1
          /\ pc = "ret" => (gate = "passed" /\ SummaryAt # {})
    /\ gate = "failed" =>
          /\ pc = "rejected"
          /\ fn = "init"
          /\ exit_status = 1
          /\ SummaryAt = {}

\* an Intel machine is turned away after the banner and the three-line message
C22_Witness ==
    /\ pc = "rejected"
    /\ gate = "failed"
    /\ cpu.vendor.ebx = "Genu"
    /\ calls = <<Banner(21), Banner(81), Banner(82), Banner(83)>>
    /\ exit_status = 1

\* C23: as long as the gate has not passed, no interposed call has run: no
\* symbol is resolved, no dlsym call was made, nothing was promoted and the
\* tracker is empty.
C23_GateBeforeAnyCall ==
    gate # "passed" =>
        /\ fn \notin {"mmap", "munmap"}
        /\ real_mmap = "null"
        /\ real_munmap = "null"
        /\ \A sym \in {"mmap", "munmap"} : dlsym_calls[sym] = 0
        /\ allocations = <<>>

\* C24: in a build with the promotion feature switched off the tracker is
\* always empty, and an intercepted mmap calls nothing but the real mmap, once,
\* at line 204, with the caller's six arguments, and returns its result: no
\* fstat, no substitute allocation, no pread.
C24_DisabledForwardsAll ==
    enable_hugepages = 0 =>
        /\ allocations = <<>>
        /\ fn = "mmap" =>
              /\ \A k \in 1..Len(calls) :
                    calls[k].site = 204 /\ CallersArguments(calls[k])
              /\ last_read = NoRead
              /\ huge_mem = nullptr
              /\ pc \notin {"mmap_huge", "mmap_anon", "mmap_read", "mmap_protect",
                            "mmap_track", "forward119", "crashed"}
              /\ pc = "ret" => (Len(calls) = 1 /\ retval = calls[1].ret)

\* a whole-file request of exactly the threshold size is forwarded
C24_Witness ==
    /\ enable_hugepages = 0
    /\ AtReturn("mmap")
    /\ fd = 3 /\ length = FileSize(3) /\ offset = 0 /\ fstat_ok
    /\ retval # MAP_FAILED

\* C25: a file-backed mmap that carries MAP_FIXED is not promoted: it is
\* forwarded to the real mmap with the caller's arguments, and a successful
\* call returns the address the caller asked for.
C25_MapFixedBypasses ==
    (AsShipped /\ AtReturn("mmap") /\ fd >= 0 /\ "MAP_FIXED" \in flags) =>
        /\ ~PromotionPath
        /\ Len(RealMmapCalls) = 1
        /\ CallersArguments(RealMmapCalls[1])
        /\ retval # MAP_FAILED => retval = addr

\* C26: the display family the gate lets through is the one its diagnostic
\* and the documentation name, Family 25h: the gate passes exactly on AMD
\* machines of display family 0x25.
C26_GateRequiresNamedFamily ==
    GateDecided =>
        (gate = "passed" <=>
            /\ cpu.leaf0
            /\ cpu.leaf1
            /\ vendor(cpu.vendor) = AuthenticAMD
            /\ display_family(cpu.eax) = DIAGNOSTIC_FAMILY)

\* the copy-in loop of the call in progress: the cumulative count never
\* passes length, the loop goes on only while it is below length and is left
\* for the protection step only when it equals length, every read adds at
\* least one byte or is the last, and a read that returns an error or end of
\* file ends the call with MAP_FAILED
CopyInBounded ==
    /\ total_read <= length
    /\ last_read.n <= total_read + 1
    /\ last_read.ret <= last_read.count
    /\ last_read.ret > 0 => total_read = last_read.dst + last_read.ret
    /\ pc = "mmap_read" => total_read < length
    /\ pc \in {"mmap_protect", "mmap_track"} => total_read = length
    /\ ReadFailed => (pc = "ret" /\ retval = MAP_FAILED)
    /\ (pc = "ret" /\ last_read.n > 0 /\ ~ReadFailed) => total_read = length

\* C27: the copy-in loop ends after finitely many reads, with the cumulative
\* count equal to length or at the first error or end-of-file result, the
\* count never exceeds length, and an intercepted mmap call whose primitives
\* return does return: it never ends in a state from which there is no return.
C27_CopyInTerminates ==
    fn = "mmap" =>
        /\ CopyInBounded
        /\ pc # "crashed"

\* the places in the log of the call in progress of the mprotect of line 191
ProtectAt == {k \in 1..Len(calls) : calls[k].site = 191}

\* the copy-in of the call in progress has read all length bytes
CopiedIn == PromotionPath /\ last_read.n > 0 /\ ~ReadFailed /\ total_read = length

\* C28: once the copy-in has succeeded, mprotect(huge_mem, length, prot) is
\* called exactly when prot has no PROT_WRITE, once, as the last call, and
\* while the tracker is still as the call found it; whatever mprotect
\* returns, the call goes on to track the region, and on return the entry
\* {huge_mem, length} has been added and huge_mem is the result.
C28_ProtectFailureIgnored ==
    fn = "mmap" =>
        /\ Cardinality(ProtectAt) <= 1
        /\ \A k \in ProtectAt :
              /\ CopiedIn
              /\ k = Len(calls)
              /\ calls[k] = Event(191, "mprotect", huge_mem, length, prot, {}, -1, 0,
                                  calls[k].ret)
              /\ pc \in {"mmap_track", "ret", "crashed"}
        /\ pc \in {"mmap_read", "mmap_protect"} => ProtectAt = {}
        /\ pc \in {"mmap_protect", "mmap_track"} =>
              (CopiedIn /\ allocations = allocations0)
        /\ (CopiedIn /\ pc \in {"mmap_track", "ret", "crashed"}) =>
              (ProtectAt # {} <=> "PROT_WRITE" \notin prot)
        /\ (CopiedIn /\ pc = "ret") =>
              /\ retval = huge_mem
              /\ retval # MAP_FAILED
              /\ allocations = <<[addr |-> huge_mem, size |-> length]>> \o allocations0

\* a read-only request whose mprotect failed returns the substitute region,
\* tracked
C28_Witness ==
    /\ AtReturn("mmap")
    /\ \E k \in ProtectAt : calls[k].ret = -1
    /\ errno = "EINVAL"
    /\ retval = huge_mem
    /\ allocations[1] = [addr |-> huge_mem, size |-> length]

\* the call in progress has gone the way of promotion / of forwarding
Promoting ==
    pc \in {"mmap_huge", "mmap_anon", "mmap_read", "mmap_protect", "mmap_track",
            "crashed"} \/ (pc = "ret" /\ PromotionPath)

Forwarding == pc \in {"forward119", "forward204"} \/ (pc = "ret" /\ ~PromotionPath)

PastInit(t) == thr[t].pc \in {"call", "mapped", "done"}

\* C30: under concurrent first calls a symbol may be looked up more than
\* once, but a cached pointer is only ever null or the one address of the real
\* function, it never changes once it is non-null, every thread that is past
\* init_functions finds both pointers non-null, and no call through a pointer
\* faults.
C30_RedundantResolveHarmless ==
    [][/\ real_mmap # "null" => real_mmap' = real_mmap
       /\ real_munmap # "null" => real_munmap' = real_munmap
       /\ real_mmap' \in {"null", "resolved"}
       /\ real_munmap' \in {"null", "resolved"}
       /\ \A t \in Threads :
             /\ PastInit(t)' => (real_mmap' = "resolved" /\ real_munmap' = "resolved")
             /\ thr'[t].pc # "crashed"]_vars

\* both symbols were looked up by each of two threads, and a thread has made
\* both its calls
C30_Witness ==
    /\ dlsym_calls["mmap"] >= 2
    /\ dlsym_calls["munmap"] >= 2
    /\ real_mmap = "resolved"
    /\ real_munmap = "resolved"
    /\ \E t \in Threads : thr[t].pc = "done"

\* the base addresses the tracker holds
TrackedBases == {allocations[i].addr : i \in 1..Len(allocations)}

PlacesOf(list, a) == {i \in 1..Len(list) : list[i].addr = a}

\* C32: untrack_allocation(a) on a list that holds a removes the one entry
\* with base a, at the head, in the middle or at the tail, returns the size
\* of that entry and leaves every other entry in place with its address and
\* size; on a list that does not hold a it returns 0 and changes nothing.
C32_UntrackRemovesExactlyOne ==
    fn = "untrack_allocation" =>
        IF PlacesOf(allocations0, addr) = {}
        THEN retval = 0 /\ allocations = allocations0
        ELSE \E i \in PlacesOf(allocations0, addr) :
                /\ retval = allocations0[i].size
                /\ allocations = Without(allocations0, i)
                /\ Len(allocations) = Len(allocations0) - 1
                /\ PlacesOf(allocations, addr) = {}

\* the middle one of three entries, of another size than its neighbours, is
\* removed
C32_Witness ==
    /\ fn = "untrack_allocation"
    /\ Len(allocations0) = 3
    /\ allocations0[2].addr = addr
    /\ allocations0[1].size # allocations0[2].size
    /\ allocations0[3].size # allocations0[2].size
    /\ allocations = <<allocations0[1], allocations0[3]>>
    /\ retval = allocations0[2].size

\* the smaller of two numbers
Min(x, y) == IF x < y THEN x ELSE y

\* the reads of the copy-in so far, given the size of a chunk: the latest
\* read asked for min(length - total_read, chunk) bytes at destination
\* cursor total_read and source offset offset + total_read, a read that
\* returned bytes advanced total_read by their number, and all the bytes
\* read so far lie in the region in file order (every read began where the
\* one before it ended, in the region and in the file)
ChunkedReads(chunk) ==
    (fn = "mmap" /\ last_read.n > 0) =>
        /\ last_read.count = Min(length - last_read.dst, chunk)
        /\ last_read.src - last_read.dst = offset
        /\ last_read.ret > 0 => total_read = last_read.dst + last_read.ret
        /\ last_read.ret <= 0 => total_read = last_read.dst
        /\ total_read > 0 =>
              copied = <<[dst |-> 0, src |-> offset, len |-> total_read]>>

\* C34 as the specification has it: the chunk is 226 MiB
C34_ChunkedReads226 == ChunkedReads(226 * 1024 * 1024)

\* C34: every positioned read asks for min(length - total_read, chunk_size)
\* bytes, with chunk_size = 256 MiB, and the destination cursor and the
\* source offset advance together by the number of bytes each read returned.
C34_ChunkedReads ==
    /\ chunk_size = 256 * 1024 * 1024
    /\ ChunkedReads(chunk_size)

\* after a short read the last read of a copy-in asks for what is left, less
\* than a chunk, and gets it
C34_Witness ==
    /\ fn = "mmap"
    /\ pc = "mmap_protect"
    /\ shorts = 1
    /\ last_read.n >= 2
    /\ last_read.count < chunk_size
    /\ last_read.count = length - last_read.dst
    /\ last_read.ret = last_read.count

\* C37: every size in the tracker is at least the threshold, hence positive;
\* so untrack_allocation returns 0 only for an address that is not tracked,
\* and munmap takes the tracked branch (line 219) exactly for the addresses
\* the tracker held when it was called.
C37_TrackedSizesPositive ==
    /\ \A i \in 1..Len(allocations) :
          /\ allocations[i].size >= MIN_SIZE_FOR_HUGEPAGES
          /\ allocations[i].size > 0
    /\ \A a \in Addrs :
          untrack_size(allocations, a) = 0 <=> FindEntry(allocations, a) = 0
    /\ AtReturn("munmap") =>
          /\ PlacesOf(allocations0, addr) # {} <=> calls[1].site = 219
          /\ PlacesOf(allocations0, addr) = {} <=> calls[1].site = 223

\* the smallest region that is ever tracked, of exactly the threshold, is
\* released on the tracked branch although munmap was given length 0
C37_Witness ==
    /\ AtReturn("munmap")
    /\ length = 0
    /\ \E i \in PlacesOf(allocations0, addr) :
          allocations0[i].size = MIN_SIZE_FOR_HUGEPAGES
    /\ calls[1].site = 219
    /\ calls[1].length = MIN_SIZE_FOR_HUGEPAGES
    /\ retval = 0

\* C39: when malloc fails in track_allocation the missing node is not written
\* through, so the call does not fault, and an address that the promotion
\* path returns is in the tracker.
C39_NodeFailureHandled ==
    (fn = "mmap" /\ CopiedIn) =>
        /\ pc \in {"mmap_protect", "mmap_track", "ret"}
        /\ (pc = "ret" /\ retval # MAP_FAILED) => retval \in TrackedBases

\* C36: when a munmap of a tracked address returns, the address is no longer
\* tracked and the other entries are as they were, whether the real munmap
\* returned 0 or -1; after a failure the region is still mapped, and a later
\* munmap of the address finds no entry and is forwarded at line 223 with the
\* length the caller gives.
C36_FailedUnmapStaysUntracked ==
    AtReturn("munmap") =>
        /\ PlacesOf(allocations, addr) = {}
        /\ \A i \in PlacesOf(allocations0, addr) :
              /\ allocations = Without(allocations0, i)
              /\ calls = <<Event(219, "real_munmap", addr, allocations0[i].size,
                                 {}, {}, -1, 0, retval)>>
              /\ retval \in {0, -1}
              /\ retval = -1 => vm[addr] # Unmapped
        /\ (PlacesOf(allocations0, addr) = {} /\ released[addr].node >= 1) =>
              /\ calls = <<Event(223, "real_munmap", addr, length, {}, {}, -1, 0,
                                 retval)>>
              /\ allocations = allocations0

\* the real munmap failed for a tracked region of 1.5 x threshold; the
\* caller's second munmap, with a smaller length, was forwarded and released
\* only the pages of that many bytes
C36_Witness ==
    /\ AtReturn("munmap")
    /\ PlacesOf(allocations0, addr) = {}
    /\ released[addr] = [node |-> 1, region |-> 1]
    /\ length = FileSize(4)
    /\ calls[1].site = 223
    /\ retval = 0
    /\ vm[addr] = <<PageUp(FileSize(4)), FileSize(5)>>

\* the protection the kernel has on the substitute region of the call in
\* progress: the one its allocation asked for, unless an mprotect of it has
\* succeeded since, then the one that mprotect asked for
RegionProt ==
    LET got == {k \in 1..Len(calls) :
                   calls[k].site \in {128, 136} /\ calls[k].ret # MAP_FAILED}
        set == {k \in ProtectAt : calls[k].ret = 0}
    IN  IF set # {} THEN calls[CHOOSE k \in set : TRUE].prot
        ELSE calls[CHOOSE k \in got : TRUE].prot

\* C38: when a promoted mmap returns a region, the region has the caller's
\* protection if that excludes write and the mprotect succeeded, and read and
\* write otherwise; a request that includes write gets no mprotect and exactly
\* read and write, whatever other bits (execute) it asked for.
C38_RegionProtection ==
    (AtReturn("mmap") /\ PromotionPath /\ retval # MAP_FAILED) =>
        /\ RegionProt =
              IF "PROT_WRITE" \notin prot /\ (\E k \in ProtectAt : calls[k].ret = 0)
              THEN prot ELSE {"PROT_READ", "PROT_WRITE"}
        /\ "PROT_WRITE" \notin prot => ProtectAt # {}
        /\ "PROT_WRITE" \in prot =>
              (ProtectAt = {} /\ RegionProt = {"PROT_READ", "PROT_WRITE"})

\* a request for read, write and execute was promoted, and the region it got
\* is readable and writable only
C38_Witness ==
    /\ AtReturn("mmap")
    /\ PromotionPath
    /\ retval # MAP_FAILED
    /\ "PROT_EXEC" \in prot
    /\ RegionProt = {"PROT_READ", "PROT_WRITE"}

\* the places in list of the regions that address p is strictly inside of
EnclosingOf(list, p) ==
    {i \in 1..Len(list) :
        /\ p \in InsideAddrs
        /\ list[i].addr = RangeOf(p)
        /\ InsideOffset < list[i].size}

\* C33: a munmap of an address in the middle of a range, so also of one that
\* is strictly inside a tracked region, is forwarded at line 223 with the
\* caller's address and length and leaves the tracker as it was; and a munmap
\* of a tracked base address asks the real munmap for the full tracked
\* length, whatever part of the region is still mapped.
C33_InsideUnmapForwarded ==
    AtReturn("munmap") =>
        /\ addr \in InsideAddrs =>
              /\ calls = <<Event(223, "real_munmap", addr, length, {}, {}, -1, 0,
                                 retval)>>
              /\ allocations = allocations0
        /\ \A i \in PlacesOf(allocations0, addr) :
              /\ calls[1].site = 219
              /\ calls[1].addr = addr
              /\ calls[1].length = allocations0[i].size

\* a munmap of an address strictly inside a tracked region of 1.5 x threshold
\* has returned 0: the kernel has released the end of the region and the
\* entry is still there with its size
C33_Witness ==
    /\ AtReturn("munmap")
    /\ EnclosingOf(allocations0, addr) # {}
    /\ length > 0
    /\ retval = 0
    /\ calls[1].site = 223
    /\ \E i \in EnclosingOf(allocations, addr) :
          /\ allocations[i].size = FileSize(5)
          /\ vm[allocations[i].addr] = <<0, InsideOffset>>

\* C35: in every state the region of every tracker entry is mapped from its
\* base over its whole tracked size.
C35_TrackedRegionsMapped ==
    \A i \in 1..Len(allocations) :
        vm[allocations[i].addr] = <<0, allocations[i].size>>

====
